---------------------------- MODULE Spec2Model ----------------------------
(***************************************************************************)
(* The training driver of main.ipynb: main() seeds the random sources,     *)
(* loads a dataset, takes one fold of a 10-fold split, builds the model,   *)
(* the Adam optimizer and a StepLR scheduler, and then runs the epoch loop *)
(*   scheduler.step(); train(); test(); [write the metrics file]; print.   *)
(* load_data, separate_data, train, test and GraphCNN are imported from    *)
(* util and models.graphcnn; the split is modelled as a seeded shuffle     *)
(* dealt into ten folds, the others by their effect on main's state.       *)
(***************************************************************************)
EXTENDS Integers, Sequences, FiniteSets, TLC

(* ------------------------------ bounds --------------------------------- *)
\* largest dataset (number of graphs) explored
MaxGraphs == 12
\* seeds 0..MaxSeed are explored
MaxSeed == 1
\* epochs = -1..MaxEpochs are explored by Spec
MaxEpochs == 3
\* the one epochs value explored by SpecLong (two halvings of the rate)
LongEpochs == 101
\* the global random state takes the values 0..RngMod
RngMod == 2

(* ------------------------- program constants --------------------------- *)
\* StepLR(optimizer, step_size=50, gamma=0.5)
StepSize == 50
\* 10-fold cross validation
NumFolds == 10
\* lr = 0.01, held in units of 0.01 / 1024 so that halving is exact
LrUnits == 1024

\* the file names tried: "" disables the output, the other is main's default
Filenames == {"", "output file"}
\* average losses train() may return, in units of 1e-7
Losses == {4, 15}
\* accuracies test() may return, in units of 1e-7 (0.0 and 1.0)
Accs == {0, 10000000}
\* dataset sizes the driver is run on: empty, one graph, one short of a graph
\* per fold, one per fold, and more than one per fold
Datasets == {0, 1, NumFolds - 1, NumFolds, MaxGraphs}

VARIABLES
    \* main's parameters
    dataset, epochs, filename, seed, fold_idx,
    \* main's control state
    pc, iter, epoch,
    \* main's locals
    graphs, train_graphs, test_graphs, model, lr, last_epoch,
    avg_loss, acc_train, acc_test,
    \* the environment: the output file on disk, the open handle f, the
    \* process-wide random state
    file, f_open, buf, rng,
    \* history of the run
    file0, steps, completed, n_sched, train_calls, test_calls,
    train_arg, test_args, eval_params, loss_epoch, acc_epoch,
    n_open, n_print, last_write, failed_at, killed_at, lr_sched, lr_prev,
    split_result,
    \* the split harness: a sweep over the folds of one seed, and one
    \* remembered earlier call
    sweep_seed, sweep, memo

params == <<dataset, epochs, filename, seed, fold_idx>>
control == <<pc, iter, epoch>>
locals == <<graphs, train_graphs, test_graphs, model, lr, last_epoch,
            avg_loss, acc_train, acc_test>>
env == <<file, f_open, buf, rng>>
hist == <<file0, steps, completed, n_sched, train_calls, test_calls,
          train_arg, test_args, eval_params, loss_epoch, acc_epoch,
          n_open, n_print, last_write, failed_at, killed_at, lr_sched,
          lr_prev, split_result>>
harness == <<sweep_seed, sweep, memo>>
driver == <<params, control, locals, file, f_open, buf, hist>>
vars == <<params, control, locals, env, hist, harness>>

(* --------------------------- pure functions ---------------------------- *)
\* range(a, b) as the sequence a, a+1, ..., b-1 (empty when b <= a)
Range(a, b) == [i \in 1..(b - a) |-> a + i - 1]

\* for epoch in range(1, epochs + 1), off by one: range(1, epochs)
LoopRangeExclusive(e) == Range(1, e)

\* for epoch in range(1, epochs + 1)
LoopRange(e) == Range(1, e + 1)

\* "%f": a value in units of 1e-7 printed with six decimals (units of 1e-6),
\* rounded to nearest, ties to even
FormatF(x) ==
    LET q == x \div 10
        r == x % 10
    IN  IF r < 5 THEN q
        ELSE IF r > 5 THEN q + 1
        ELSE IF q % 2 = 0 THEN q ELSE q + 1

\* "%f %f %f" % (avg_loss, acc_train, acc_test)
Text(l, a, t) == <<FormatF(l), FormatF(a), FormatF(t)>>

\* "\n"
NL == <<>>

\* the set of elements of a sequence
Elems(s) == {s[i] : i \in 1..Len(s)}


\* a linear congruential generator: the state after one draw
Lcg(s) == (5 * s + 3) % 16

\* s without its j-th element
Without(s, j) == [i \in 1..(Len(s) - 1) |-> IF i < j THEN s[i] ELSE s[i + 1]]

\* a shuffle of items driven by the generator state s: draw the next element,
\* then shuffle the rest with the advanced state
RECURSIVE Shuffle(_, _)
Shuffle(items, s) ==
    IF Len(items) <= 1 THEN items
    ELSE LET j == (s % Len(items)) + 1
         IN  <<items[j]>> \o Shuffle(Without(items, j), Lcg(s))

\* the elements of s at the positions p with (p - 1) % NumFolds = f
RECURSIVE Deal(_, _, _)
Deal(s, p, f) ==
    IF p > Len(s) THEN <<>>
    ELSE (IF (p - 1) % NumFolds = f THEN <<s[p]>> ELSE <<>>) \o Deal(s, p + 1, f)

\* the elements of s that are not in the set out, in s's order
RECURSIVE Keep(_, _)
Keep(s, out) ==
    IF s = <<>> THEN <<>>
    ELSE (IF Head(s) \in out THEN <<>> ELSE <<Head(s)>>) \o Keep(Tail(s), out)

\* the split with fold fi held out, given the shuffled order
SplitOf(gs, order, fi) ==
    LET held == Deal(order, 1, fi)
    IN  [train |-> Keep(gs, Elems(held)), test |-> held]

\* a split that shuffles with the process-wide random state, not the seed
separate_data_global(gs, sd, fi) == SplitOf(gs, Shuffle(gs, Lcg(rng)), fi)

\* a split that shuffles afresh for every fold
separate_data_reshuffled(gs, sd, fi) == SplitOf(gs, Shuffle(gs, Lcg(sd + fi)), fi)

\* separate_data(graphs, seed, fold_idx): a 10-way partition of the graphs
\* drawn from the seed alone; fold fold_idx is the test set, the rest train
separate_data(gs, sd, fi) == SplitOf(gs, Shuffle(gs, Lcg(sd)), fi)

\* StepLR that decays one step early
StepLREarly(lrv, le) ==
    IF (le + 1) % StepSize # 0 THEN lrv ELSE lrv \div 2

\* StepLR(step_size=50, gamma=0.5): the rate after a scheduler step that
\* brought the step count to le
StepLR(lrv, le) ==
    IF le = 0 \/ le % StepSize # 0 THEN lrv ELSE lrv \div 2

\* open(filename, 'a'): the content is kept
OpenA(fl) == [exists |-> TRUE, content |-> fl.content]

\* open(filename, 'w'): the file is created or truncated
OpenW(fl) == [exists |-> TRUE, content |-> <<>>]

\* the metrics file is written whatever the file name
FileOutputAlways(fname) == TRUE

\* if not filename == "":
FileOutputEnabled(fname) == ~(fname = "")

\* the statements of the loop body with test() ahead of train()
NextStmtTestFirst(p, fname) ==
    CASE p = "seed" -> "load"
      [] p = "load" -> "split"
      [] p = "split" -> "model"
      [] p = "model" -> "optim"
      [] p = "optim" -> "for"
      [] p = "sched" -> "test"
      [] p = "test" -> "train"
      [] p = "train" -> "if"
      [] p = "if" -> IF FileOutputEnabled(fname) THEN "open" ELSE "print1"
      [] p = "open" -> "write1"
      [] p = "write1" -> "write2"
      [] p = "write2" -> "close"
      [] p = "close" -> "print1"
      [] p = "print1" -> "print2"
      [] p = "print2" -> "for"
      [] OTHER -> "done"

\* the statement that follows statement p of main
NextStmt(p, fname) ==
    CASE p = "seed" -> "load"
      [] p = "load" -> "split"
      [] p = "split" -> "model"
      [] p = "model" -> "optim"
      [] p = "optim" -> "for"
      [] p = "sched" -> "train"
      [] p = "train" -> "test"
      [] p = "test" -> "if"
      [] p = "if" -> IF FileOutputEnabled(fname) THEN "open" ELSE "print1"
      [] p = "open" -> "write1"
      [] p = "write1" -> "write2"
      [] p = "write2" -> "close"
      [] p = "close" -> "print1"
      [] p = "print1" -> "print2"
      [] p = "print2" -> "for"
      [] OTHER -> "done"

\* an exception that is caught and the statement run again
OnExceptionRetry(p) == p

\* main catches nothing: an exception in any statement ends the run
OnException(p) == "failed"

\* the file on disk after the process is terminated: what is buffered in the
\* open handle is lost, or flushed when the termination lets the interpreter
\* shut down
KilledFiles == {file, [file EXCEPT !.content = @ \o buf]}

\* test(model, device, train_graphs, train_graphs, epoch)
TestCallGraphsTypo == <<train_graphs, train_graphs>>

\* train(model, device, train_graphs, ...)
TrainCallGraphs == train_graphs

\* test(model, device, train_graphs, test_graphs, epoch)
TestCallGraphs == <<train_graphs, test_graphs>>

(* ------------------------------ states --------------------------------- *)
Absent == [exists |-> FALSE, content |-> <<>>]
\* a file left by an earlier run
Stale == [exists |-> TRUE, content |-> <<<<7, 7, 7>>, NL>>]
NoCall == [seed |-> -1, fold |-> -1, train |-> <<>>, test |-> <<>>, old |-> FALSE]
NoSplit == [train |-> <<>>, test |-> <<>>]
NoWrite == [epoch |-> 0, content |-> <<>>]
Terminal == {"done", "failed", "killed"}

InitWith(E, D, S, FN) ==
    /\ dataset \in D /\ epochs \in E /\ filename \in FN
    /\ seed \in S /\ fold_idx \in 0..(NumFolds - 1)
    /\ pc = "seed" /\ iter = 0 /\ epoch = 0
    /\ graphs = <<>> /\ train_graphs = <<>> /\ test_graphs = <<>>
    /\ model = -1 /\ lr = 0 /\ last_epoch = -1
    /\ avg_loss = -1 /\ acc_train = -1 /\ acc_test = -1
    /\ file \in {Absent, Stale} /\ file0 = file
    /\ f_open = FALSE /\ buf = <<>> /\ rng \in 0..RngMod
    /\ steps = <<>> /\ completed = 0 /\ n_sched = 0
    /\ train_calls = <<>> /\ test_calls = <<>>
    /\ train_arg = <<>> /\ test_args = <<<<>>, <<>>>> /\ eval_params = -1
    /\ loss_epoch = 0 /\ acc_epoch = 0 /\ n_open = 0 /\ n_print = 0
    /\ last_write = NoWrite /\ failed_at = "none" /\ killed_at = "none"
    /\ lr_sched = 0 /\ lr_prev = 0 /\ split_result = NoSplit
    /\ sweep_seed = 0 /\ sweep = <<>> /\ memo = NoCall

Init == InitWith(-1..MaxEpochs, Datasets, 0..MaxSeed, Filenames)

InitLong == InitWith({LongEpochs}, {MaxGraphs}, {0}, Filenames)

(* ----------------------------- the driver ------------------------------ *)
\* torch.manual_seed(0); np.random.seed(0)
SeedAll ==
    /\ pc = "seed"
    /\ rng' = 0
    /\ pc' = NextStmt(pc, filename)
    /\ UNCHANGED <<params, iter, epoch, locals, file, f_open, buf, hist, harness>>

\* graphs, num_classes = load_data(dataset, degree_as_tag)
LoadData ==
    /\ pc = "load"
    /\ graphs' = Range(1, dataset + 1)
    /\ pc' = NextStmt(pc, filename)
    /\ UNCHANGED <<params, iter, epoch, train_graphs, test_graphs, model, lr,
                   last_epoch, avg_loss, acc_train, acc_test, env, hist, harness>>

\* train_graphs, test_graphs = separate_data(graphs, seed, fold_idx)
SeparateData ==
    /\ pc = "split"
    /\ LET r == separate_data(graphs, seed, fold_idx)
       IN  /\ train_graphs' = r.train
           /\ test_graphs' = r.test
           /\ split_result' = r
    /\ pc' = NextStmt(pc, filename)
    /\ UNCHANGED <<params, iter, epoch, graphs, model, lr, last_epoch, avg_loss,
                   acc_train, acc_test, env, file0, steps, completed, n_sched,
                   train_calls, test_calls, train_arg, test_args, eval_params,
                   loss_epoch, acc_epoch, n_open, n_print, last_write,
                   failed_at, killed_at, lr_sched, lr_prev, harness>>

\* model = GraphCNN(..., train_graphs[0].node_features.shape[1], ...)
BuildModel ==
    /\ pc = "model"
    /\ Len(train_graphs) > 0
    /\ model' = 0
    /\ pc' = NextStmt(pc, filename)
    /\ UNCHANGED <<params, iter, epoch, graphs, train_graphs, test_graphs, lr,
                   last_epoch, avg_loss, acc_train, acc_test, env, hist, harness>>

\* optimizer = optim.Adam(..., lr=lr); scheduler = StepLR(optimizer, 50, 0.5)
BuildOptimizer ==
    /\ pc = "optim"
    /\ lr' = LrUnits
    /\ last_epoch' = 0
    /\ lr_sched' = LrUnits
    /\ lr_prev' = LrUnits
    /\ pc' = NextStmt(pc, filename)
    /\ UNCHANGED <<params, iter, epoch, graphs, train_graphs, test_graphs, model,
                   avg_loss, acc_train, acc_test, env, file0, steps, completed,
                   n_sched, train_calls, test_calls, train_arg, test_args,
                   eval_params, loss_epoch, acc_epoch, n_open, n_print,
                   last_write, failed_at, killed_at, split_result, harness>>

\* for epoch in range(1, epochs + 1): the next epoch, or the end of the loop
ForNext ==
    /\ pc = "for"
    /\ IF iter < Len(LoopRange(epochs))
       THEN /\ epoch' = LoopRange(epochs)[iter + 1]
            /\ iter' = iter + 1
            /\ steps' = <<>>
            /\ pc' = "sched"
       ELSE /\ pc' = "done"
            /\ UNCHANGED <<epoch, iter, steps>>
    /\ UNCHANGED <<params, locals, env, file0, completed, n_sched, train_calls,
                   test_calls, train_arg, test_args, eval_params, loss_epoch,
                   acc_epoch, n_open, n_print, last_write, failed_at, killed_at,
                   lr_sched, lr_prev, split_result, harness>>

\* scheduler.step()
SchedulerStep ==
    /\ pc = "sched"
    /\ last_epoch' = last_epoch + 1
    /\ lr' = StepLR(lr, last_epoch')
    /\ lr_prev' = lr
    /\ lr_sched' = lr'
    /\ n_sched' = n_sched + 1
    /\ steps' = Append(steps, "sched")
    /\ pc' = NextStmt(pc, filename)
    /\ UNCHANGED <<params, iter, epoch, graphs, train_graphs, test_graphs, model,
                   avg_loss, acc_train, acc_test, env, file0, completed,
                   train_calls, test_calls, train_arg, test_args, eval_params,
                   loss_epoch, acc_epoch, n_open, n_print, last_write,
                   failed_at, killed_at, split_result, harness>>

\* avg_loss = train(model, device, train_graphs, optimizer, epoch, ...): the
\* parameters become those of this epoch's training, batches are drawn from
\* the process-wide random state
Train ==
    /\ pc = "train"
    /\ \E l \in Losses : avg_loss' = l
    /\ model' = epoch
    /\ rng' = (rng + 1) % (RngMod + 1)
    /\ train_calls' = Append(train_calls, epoch)
    /\ train_arg' = TrainCallGraphs
    /\ loss_epoch' = epoch
    /\ steps' = Append(steps, "train")
    /\ pc' = NextStmt(pc, filename)
    /\ UNCHANGED <<params, iter, epoch, graphs, train_graphs, test_graphs, lr,
                   last_epoch, acc_train, acc_test, file, f_open, buf, file0,
                   completed, n_sched, test_calls, test_args, eval_params,
                   acc_epoch, n_open, n_print, last_write, failed_at, killed_at,
                   lr_sched, lr_prev, split_result, harness>>

\* acc_train, acc_test = test(model, device, train_graphs, test_graphs, epoch)
Test ==
    /\ pc = "test"
    /\ \E a \in Accs, t \in Accs : acc_train' = a /\ acc_test' = t
    /\ test_calls' = Append(test_calls, epoch)
    /\ test_args' = TestCallGraphs
    /\ eval_params' = model
    /\ acc_epoch' = epoch
    /\ steps' = Append(steps, "test")
    /\ pc' = NextStmt(pc, filename)
    /\ UNCHANGED <<params, iter, epoch, graphs, train_graphs, test_graphs, model,
                   lr, last_epoch, avg_loss, env, file0, completed, n_sched,
                   train_calls, train_arg, loss_epoch, n_open, n_print,
                   last_write, failed_at, killed_at, lr_sched, lr_prev,
                   split_result, harness>>

\* if not filename == "":
IfFilename ==
    /\ pc = "if"
    /\ pc' = NextStmt(pc, filename)
    /\ UNCHANGED <<params, iter, epoch, locals, env, hist, harness>>

\* with open(filename, 'w') as f:
OpenFile ==
    /\ pc = "open"
    /\ file' = OpenW(file)
    /\ f_open' = TRUE
    /\ buf' = <<>>
    /\ n_open' = n_open + 1
    /\ pc' = NextStmt(pc, filename)
    /\ UNCHANGED <<params, iter, epoch, locals, rng, file0, steps, completed,
                   n_sched, train_calls, test_calls, train_arg, test_args,
                   eval_params, loss_epoch, acc_epoch, n_print, last_write,
                   failed_at, killed_at, lr_sched, lr_prev, split_result,
                   harness>>

\* f.write("%f %f %f" % (avg_loss, acc_train, acc_test)): buffered
WriteMetrics ==
    /\ pc = "write1"
    /\ buf' = Append(buf, Text(avg_loss, acc_train, acc_test))
    /\ pc' = NextStmt(pc, filename)
    /\ UNCHANGED <<params, iter, epoch, locals, file, f_open, rng, hist, harness>>

\* f.write("\n"): buffered
WriteNewline ==
    /\ pc = "write2"
    /\ buf' = Append(buf, NL)
    /\ pc' = NextStmt(pc, filename)
    /\ UNCHANGED <<params, iter, epoch, locals, file, f_open, rng, hist, harness>>

\* the end of the with block: the buffer is flushed and the file closed
CloseFile ==
    /\ pc = "close"
    /\ file' = [file EXCEPT !.content = @ \o buf]
    /\ buf' = <<>>
    /\ f_open' = FALSE
    /\ last_write' = [epoch |-> epoch, content |-> file'.content]
    /\ steps' = Append(steps, "write")
    /\ pc' = NextStmt(pc, filename)
    /\ UNCHANGED <<params, iter, epoch, locals, rng, file0, completed, n_sched,
                   train_calls, test_calls, train_arg, test_args, eval_params,
                   loss_epoch, acc_epoch, n_open, n_print, failed_at, killed_at,
                   lr_sched, lr_prev, split_result, harness>>

\* print("")
PrintBlank ==
    /\ pc = "print1"
    /\ pc' = NextStmt(pc, filename)
    /\ UNCHANGED <<params, iter, epoch, locals, env, hist, harness>>

\* print(model.eps): the last statement of the epoch
PrintEps ==
    /\ pc = "print2"
    /\ n_print' = n_print + 1
    /\ steps' = Append(steps, "print")
    /\ completed' = completed + 1
    /\ pc' = NextStmt(pc, filename)
    /\ UNCHANGED <<params, iter, epoch, locals, env, file0, n_sched, train_calls,
                   test_calls, train_arg, test_args, eval_params, loss_epoch,
                   acc_epoch, n_open, last_write, failed_at, killed_at,
                   lr_sched, lr_prev, split_result, harness>>

(* ------------------------ failures and the kill ------------------------ *)
\* load_data, separate_data, GraphCNN, train or test raises: nothing of the
\* statement's assignment happens, the exception leaves main
CallFails ==
    /\ pc \in {"load", "split", "model", "train", "test"}
    /\ failed_at' = pc
    /\ pc' = OnException(pc)
    /\ UNCHANGED <<params, iter, epoch, locals, env, file0, steps, completed,
                   n_sched, train_calls, test_calls, train_arg, test_args,
                   eval_params, loss_epoch, acc_epoch, n_open, n_print,
                   last_write, killed_at, lr_sched, lr_prev, split_result,
                   harness>>

\* open(filename, 'w') raises: the file is not touched
OpenFails ==
    /\ pc = "open"
    /\ failed_at' = pc
    /\ pc' = OnException(pc)
    /\ UNCHANGED <<params, iter, epoch, locals, env, file0, steps, completed,
                   n_sched, train_calls, test_calls, train_arg, test_args,
                   eval_params, loss_epoch, acc_epoch, n_open, n_print,
                   last_write, killed_at, lr_sched, lr_prev, split_result,
                   harness>>

\* a write or the final flush raises inside the with block: the handle is
\* closed on the way out, and what was buffered may or may not reach the disk
WriteFails ==
    /\ pc \in {"write1", "write2", "close"}
    /\ \E flushed \in BOOLEAN :
         file' = IF flushed THEN [file EXCEPT !.content = @ \o buf] ELSE file
    /\ buf' = <<>>
    /\ f_open' = FALSE
    /\ failed_at' = pc
    /\ pc' = OnException(pc)
    /\ UNCHANGED <<params, iter, epoch, locals, rng, file0, steps, completed,
                   n_sched, train_calls, test_calls, train_arg, test_args,
                   eval_params, loss_epoch, acc_epoch, n_open, n_print,
                   last_write, killed_at, lr_sched, lr_prev, split_result,
                   harness>>

\* the process is terminated from outside, at any statement
Kill ==
    /\ pc \notin Terminal
    /\ killed_at' = pc
    /\ pc' = "killed"
    /\ \E k \in KilledFiles : file' = k
    /\ buf' = <<>>
    /\ f_open' = FALSE
    /\ UNCHANGED <<params, iter, epoch, locals, rng, file0, steps, completed,
                   n_sched, train_calls, test_calls, train_arg, test_args,
                   eval_params, loss_epoch, acc_epoch, n_open, n_print,
                   last_write, failed_at, lr_sched, lr_prev, split_result,
                   harness>>

Next ==
    \/ SeedAll \/ LoadData \/ SeparateData \/ BuildModel \/ BuildOptimizer
    \/ ForNext \/ SchedulerStep \/ Train \/ Test \/ IfFilename
    \/ OpenFile \/ WriteMetrics \/ WriteNewline \/ CloseFile
    \/ PrintBlank \/ PrintEps
    \/ CallFails \/ OpenFails \/ WriteFails \/ Kill

\* main run with epochs = -1..MaxEpochs
Spec == Init /\ [][Next]_vars

\* main run for LongEpochs epochs
SpecLong == InitLong /\ [][Next]_vars

(* -------------------------- the split harness -------------------------- *)
\* a loaded dataset on which separate_data is called again and again
InitSplit ==
    /\ dataset \in 0..MaxGraphs /\ epochs = 0 /\ filename = ""
    /\ seed = 0 /\ fold_idx = 0
    /\ pc = "harness" /\ iter = 0 /\ epoch = 0
    /\ graphs = Range(1, dataset + 1)
    /\ train_graphs = <<>> /\ test_graphs = <<>>
    /\ model = -1 /\ lr = 0 /\ last_epoch = -1
    /\ avg_loss = -1 /\ acc_train = -1 /\ acc_test = -1
    /\ file = Absent /\ file0 = file
    /\ f_open = FALSE /\ buf = <<>> /\ rng \in 0..RngMod
    /\ steps = <<>> /\ completed = 0 /\ n_sched = 0
    /\ train_calls = <<>> /\ test_calls = <<>>
    /\ train_arg = <<>> /\ test_args = <<<<>>, <<>>>> /\ eval_params = -1
    /\ loss_epoch = 0 /\ acc_epoch = 0 /\ n_open = 0 /\ n_print = 0
    /\ last_write = NoWrite /\ failed_at = "none" /\ killed_at = "none"
    /\ lr_sched = 0 /\ lr_prev = 0 /\ split_result = NoSplit
    /\ sweep_seed \in 0..MaxSeed /\ sweep = <<>> /\ memo = NoCall

\* separate_data(graphs, sweep_seed, f) for the next fold f of the sweep; the
\* call may be the one that is remembered
SweepCall ==
    /\ pc = "harness"
    /\ Len(sweep) < NumFolds
    /\ LET fi == Len(sweep)
           r == separate_data(graphs, sweep_seed, fi)
       IN  /\ sweep' = Append(sweep, r)
           /\ memo' \in {memo, [seed |-> sweep_seed, fold |-> fi,
                                train |-> r.train, test |-> r.test,
                                old |-> FALSE]}
    /\ UNCHANGED <<driver, rng, sweep_seed>>

\* a new sweep, with any seed; a remembered call is now an earlier one
NewSweep ==
    /\ pc = "harness"
    /\ \E s \in 0..MaxSeed : sweep_seed' = s
    /\ sweep' = <<>>
    /\ memo' = IF memo = NoCall THEN memo ELSE [memo EXCEPT !.old = TRUE]
    /\ UNCHANGED <<driver, rng>>

\* something else draws from the process-wide random state between two calls
DrawGlobal ==
    /\ pc = "harness"
    /\ rng' = (rng + 1) % (RngMod + 1)
    /\ UNCHANGED <<driver, harness>>

\* main's torch.manual_seed(0); np.random.seed(0) between two calls
ReseedGlobal ==
    /\ pc = "harness"
    /\ rng # 0
    /\ rng' = 0
    /\ UNCHANGED <<driver, harness>>

NextSplit == SweepCall \/ NewSweep \/ DrawGlobal \/ ReseedGlobal

\* separate_data called repeatedly on one dataset
SpecSplit == InitSplit /\ [][NextSplit]_vars

(* ------------------------------ the claims ----------------------------- *)
\* one line of three numbers, ended by a newline
IsOneLine(c) == Len(c) = 2 /\ Len(c[1]) = 3 /\ c[2] = NL

\* the file as its last completed write left it (as found, if none completed)
Committed ==
    IF last_write = NoWrite THEN file0
    ELSE [exists |-> TRUE, content |-> last_write.content]

\* the statements between the for line and the end of the loop body
BodyPcs == {"sched", "train", "test", "if", "open", "write1", "write2",
            "close", "print1", "print2"}

\* the steps an epoch makes, in order
EpochSteps ==
    IF filename = "" THEN <<"sched", "train", "test", "print">>
    ELSE <<"sched", "train", "test", "write", "print">>

\* the steps of the current epoch made before statement p
StepsBefore(p) ==
    CASE p = "sched" -> <<>>
      [] p = "train" -> <<"sched">>
      [] p \in {"test"} -> <<"sched", "train">>
      [] p \in {"if", "open", "write1", "write2", "close"} ->
           <<"sched", "train", "test">>
      [] p \in {"print1", "print2"} -> SubSeq(EpochSteps, 1, Len(EpochSteps) - 1)
      [] OTHER -> EpochSteps

\* C1: in every epoch the steps are made in the order scheduler step, Trainer,
\* Evaluator, file write (only with a file name), eps printout, each once; an
\* epoch starts only when the one before it has made its last step; and the
\* Evaluator of an epoch sees the parameters its Trainer left.
C1_EpochOrder ==
    /\ pc \in BodyPcs => steps = StepsBefore(pc) /\ completed = epoch - 1
    /\ (pc \in {"for", "done"} /\ epoch >= 1) =>
          steps = EpochSteps /\ completed = epoch
    /\ (\E i \in 1..Len(steps) : steps[i] = "test") =>
          /\ eval_params = epoch
          /\ train_calls # <<>>
          /\ train_calls[Len(train_calls)] = epoch
          /\ test_calls[Len(test_calls)] = epoch

C1_Witness ==
    /\ pc = "for" /\ epoch = 2 /\ filename # ""
    /\ steps = <<"sched", "train", "test", "write", "print">>
    /\ eval_params = 2

\* C2: with a file name, once the write of epoch e is done the file holds
\* exactly one line, the formatted triple computed in epoch e, and keeps it
\* until the next epoch opens the file; no earlier line remains.
C2_OneLinePerEpoch ==
    filename # "" =>
      /\ (pc \in {"print1", "print2", "for", "done"} /\ epoch >= 1) =>
            /\ file.exists
            /\ file.content = <<Text(avg_loss, acc_train, acc_test), NL>>
            /\ IsOneLine(file.content)
            /\ loss_epoch = epoch /\ acc_epoch = epoch
            /\ last_write.epoch = epoch
      /\ (pc \in {"sched", "train", "test", "if", "open"} /\ epoch >= 2) =>
            /\ IsOneLine(file.content)
            /\ file.content = last_write.content
            /\ last_write.epoch = epoch - 1

C2_Witness ==
    /\ pc = "done" /\ epoch = 2 /\ filename # "" /\ file0 = Stale
    /\ file.content = <<<<2, 1000000, 0>>, NL>>

\* C3: the loop makes exactly epochs iterations, numbered 1, 2, ..., epochs:
\* Trainer and Evaluator are called with these epoch numbers in this order and
\* the run ends only after the last; with epochs <= 0 nothing of the body
\* runs and the file is left as found.
C3_ExactlyEpochs ==
    /\ train_calls = [i \in 1..Len(train_calls) |-> i]
    /\ test_calls = [i \in 1..Len(test_calls) |-> i]
    /\ Len(train_calls) <= (IF epochs > 0 THEN epochs ELSE 0)
    /\ pc = "done" =>
          /\ train_calls = [i \in 1..epochs |-> i]
          /\ test_calls = [i \in 1..epochs |-> i]
          /\ n_sched = (IF epochs > 0 THEN epochs ELSE 0)
          /\ completed = n_sched
    /\ epochs <= 0 =>
          /\ n_sched = 0 /\ train_calls = <<>> /\ test_calls = <<>>
          /\ n_open = 0 /\ n_print = 0 /\ file = file0

C3_Witness ==
    /\ pc = "done" /\ epochs = MaxEpochs
    /\ Len(train_calls) = MaxEpochs /\ Len(test_calls) = MaxEpochs

\* C4: with the empty file name no file is ever opened, created, truncated or
\* written, while every epoch still makes its scheduler step, Trainer,
\* Evaluator and printout; with a file name the file is opened and written
\* once per epoch.
C4_EmptyFilename ==
    /\ filename = "" =>
          /\ file = file0 /\ n_open = 0 /\ ~f_open /\ buf = <<>>
          /\ last_write = NoWrite
          /\ (pc \in {"for", "done"} /\ epoch >= 1) =>
                /\ steps = <<"sched", "train", "test", "print">>
                /\ n_sched = epoch /\ Len(train_calls) = epoch
                /\ Len(test_calls) = epoch /\ n_print = epoch
    /\ filename # "" =>
          /\ (pc \in {"for", "done"}) => n_open = epoch /\ last_write.epoch = epoch
          /\ pc \in {"sched", "train", "test", "if", "open"} => n_open = epoch - 1
          /\ pc \in {"write1", "write2", "close"} => n_open = epoch /\ f_open
          /\ pc \in {"print1", "print2"} => n_open = epoch /\ last_write.epoch = epoch

C4_Witness ==
    /\ filename = "" /\ pc = "done" /\ epoch = 2 /\ file0 = Stale /\ n_print = 2

\* no element twice in the sequence
NoDup(s) == Cardinality(Elems(s)) = Len(s)

\* train and test hold every graph of gs exactly once between them
IsPartition(r, gs) ==
    /\ NoDup(r.train) /\ NoDup(r.test)
    /\ Elems(r.train) \cap Elems(r.test) = {}
    /\ Elems(r.train) \cup Elems(r.test) = Elems(gs)

\* C5: the train and test collections separate_data returns partition the
\* loaded graphs, and the driver trains and evaluates on exactly these two,
\* unchanged, in every epoch.
C5_SplitPartition ==
    pc \notin {"seed", "load", "split", "harness"} /\ failed_at \notin {"load", "split"}
      /\ killed_at \notin {"seed", "load", "split"} =>
        /\ IsPartition(split_result, graphs)
        /\ train_graphs = split_result.train
        /\ test_graphs = split_result.test
        /\ train_calls # <<>> => train_arg = split_result.train
        /\ test_calls # <<>> => test_args = <<split_result.train, split_result.test>>

C5_Witness ==
    /\ pc = "if" /\ epoch = 2 /\ dataset = MaxGraphs
    /\ Len(split_result.test) >= 2 /\ Len(split_result.train) >= NumFolds
    /\ test_args = <<split_result.train, split_result.test>>

\* the union of the test sets of a sweep
SweepTests == UNION {Elems(sweep[i].test) : i \in 1..Len(sweep)}

\* C6: for one dataset and one seed the test sets of fold_idx = 0, ..., 9 are
\* pairwise disjoint and together hold every graph.
C6_FoldsPartition ==
    /\ \A i, j \in 1..Len(sweep) :
          i # j => Elems(sweep[i].test) \cap Elems(sweep[j].test) = {}
    /\ \A i \in 1..Len(sweep) : NoDup(sweep[i].test)
    /\ Len(sweep) = NumFolds => SweepTests = Elems(graphs)

C6_Witness ==
    /\ Len(sweep) = NumFolds /\ dataset = MaxGraphs /\ sweep_seed = MaxSeed
    /\ Len(sweep[1].test) = 2 /\ Len(sweep[NumFolds].test) = 1

C8_KilledKeepsLastWrite ==
    pc = "killed" => file = Committed

\* s is an initial part of t
IsPrefix(s, t) == Len(s) <= Len(t) /\ s = SubSeq(t, 1, Len(s))

\* C8 amended: terminated outside a write, the file is as its last completed
\* write left it, a complete one-line record or the file as found; terminated
\* between open and close of a write, the file holds no earlier record: it is
\* empty or holds the part of the new record written so far.
C8_KilledOutsideWrite ==
    /\ last_write # NoWrite => IsOneLine(last_write.content)
    /\ pc = "killed" =>
          IF killed_at \in {"write1", "write2", "close"}
          THEN /\ file.exists
               /\ IsPrefix(file.content, <<Text(avg_loss, acc_train, acc_test), NL>>)
          ELSE file = Committed

C8_Witness ==
    /\ pc = "killed" /\ killed_at = "close" /\ last_write.epoch = 1 /\ epoch = 2
    /\ file.content = <<>>

\* x halved k times
RECURSIVE Halved(_, _)
Halved(x, k) == IF k = 0 THEN x ELSE Halved(x \div 2, k - 1)

\* C9: the scheduler is stepped once per epoch, before the Trainer, so in
\* epoch e the rate in effect is the initial rate halved floor(e / 50) times;
\* the rate never increases and changes only at a scheduler step.
C9_HalvedEveryFifty ==
    /\ (pc \in BodyPcs \ {"sched"} \/ (pc \in {"for", "done"} /\ epoch >= 1)) =>
          /\ n_sched = epoch
          /\ last_epoch = epoch
          /\ lr = Halved(LrUnits, epoch \div StepSize)
    /\ pc = "sched" => n_sched = epoch - 1
    /\ lr = lr_sched
    /\ lr <= lr_prev
    /\ train_calls # <<>> => n_sched >= train_calls[Len(train_calls)]

C9_Witness ==
    /\ pc = "train" /\ epoch = 2 * StepSize /\ n_sched = epoch
    /\ lr = LrUnits \div 4

\* C10: a failing step ends the run there: it is not tried again and no later
\* step runs. A failure before the loop leaves no epoch run and the file as
\* found; a failure of Trainer or Evaluator in epoch e leaves the file with
\* the record of epoch e - 1, or as found when e = 1.
C10_NoRetry ==
    /\ failed_at # "none" => pc = "failed"
    /\ pc = "failed" =>
          /\ failed_at # "none"
          /\ ~ENABLED Next
          /\ failed_at \in {"load", "split", "model"} =>
                /\ epoch = 0 /\ n_sched = 0 /\ train_calls = <<>>
                /\ test_calls = <<>> /\ file = file0 /\ n_open = 0
          /\ failed_at \in {"train", "test"} =>
                /\ steps = StepsBefore(failed_at)
                /\ Len(train_calls) = epoch - (IF failed_at = "train" THEN 1 ELSE 0)
                /\ Len(test_calls) = epoch - 1
                /\ completed = epoch - 1
                /\ file = Committed
                /\ epoch = 1 => file = file0
                /\ (epoch > 1 /\ filename # "") =>
                      /\ last_write.epoch = epoch - 1
                      /\ IsOneLine(file.content)

C10_Witness ==
    /\ pc = "failed" /\ failed_at = "test" /\ epoch = 2 /\ filename # ""
    /\ last_write.epoch = 1 /\ file.content = last_write.content

=============================================================================
